---- MODULE Spec2Model ----
(***************************************************************************)
(* MediClarify: the session coordinator of src/context/MedicalContext.tsx  *)
(* (MedicalProvider, second definition, lines 211-554) together with the   *)
(* chat service it drives (src/components/ComparisonView.tsx 403-499).     *)
(*                                                                         *)
(* Every handler of the provider is one action.  A handler reads the React *)
(* state of the render it was created in (its closure) and queues state    *)
(* updates; the updates of one handler are committed together.  So inside  *)
(* an action the unprimed variables are the closure and the primed ones    *)
(* the committed state.  The continuation of an awaited call runs later,   *)
(* as its own action, with the closure of the render that issued the call: *)
(* the pending request carries what that continuation reads from it.       *)
(***************************************************************************)
EXTENDS Integers, Sequences, FiniteSets, TLC

\* ---------------------------------------------------------------- bounds
\* analyzeDocument calls issued in one behaviour
MaxCalls == 2
\* chat requests issued in one behaviour
MaxChats == 1
\* largest value the clock (Date.now()) takes
MaxClock == 3
\* entries localStorage has room for where space is short
MaxStored == 1

\* ------------------------------------------------------------ value sets
\* type Language = 'en' | 'vi'
Languages == {"en", "vi"}

\* contents (base64) of the documents the user uploads
Docs == {"X", "Y"}

\* a field that is absent from a stored object (JavaScript undefined)
Undef == "undefined"

\* JavaScript falsiness of a string-valued field
Falsy(s) == s \in {"", Undef}

\* FileData as produced by the upload component: an image carries a data URL
\* preview (its payload is the base64), a PDF a blob URL preview
FileOf(d) ==
    IF d = "X"
    THEN [base64 |-> d, mimeType |-> "image/jpeg", previewData |-> d,
          name |-> "scan.jpg"]
    ELSE [base64 |-> d, mimeType |-> "application/pdf", previewData |-> "",
          name |-> "scan.pdf"]

\* fileData = null
NoFile == [base64 |-> "null", mimeType |-> "", previewData |-> "", name |-> ""]

\* analysisData = null / a missing key of analysisCache
NoData == [doc |-> "", lang |-> "", serial |-> 0, documentType |-> ""]

\* AnalysisData.documentType: the classification the analysis service gives
\* a document
DocumentTypeOf(b64) ==
    IF b64 = "Y" THEN "Prescription" ELSE "Blood Test"

\* the AnalysisData returned by the analyzeDocument call number n, issued for
\* content b64 and language lang
ResultOf(b64, lang, n) ==
    [doc |-> b64, lang |-> lang, serial |-> n,
     documentType |-> DocumentTypeOf(b64)]

\* currentHistoryId = null
NoId == -1

\* error = null
NoError == ""

\* chatSession = null (module variable of the chat service)
NoSession == [doc |-> "null", lang |-> "", turns |-> <<>>]

\* no prepareComparison call is under way
NoPrepare == [selection |-> <<>>, lang |-> "", need |-> {}, serial |-> 0]

\* analysisCache = {}
EmptyCache == [l \in Languages |-> NoData]

\* ChatMessage; n is the number of the chat request the turn belongs to
UserTurn(n)  == [role |-> "user",  kind |-> "user",  n |-> n]
ReplyTurn(n) == [role |-> "model", kind |-> "reply", n |-> n]
ErrorTurn(n) == [role |-> "model", kind |-> "error", n |-> n]
InitTurn     == [role |-> "model", kind |-> "init",  n |-> 0]

\* ------------------------------------------------------- persisted history
\* An entry written by the first provider (no base64, mimeType, language,
\* chatHistory), with a blob URL preview
LegacyV1 ==
    [id |-> 0, date |-> 0, language |-> Undef, base64 |-> Undef,
     mimeType |-> Undef, previewData |-> "", fileName |-> "scan.jpg",
     documentType |-> "Blood Test", data |-> ResultOf("X", "en", -1),
     chatHistory |-> <<>>]

\* An entry written before the language field existed
LegacyV2 ==
    [id |-> 0, date |-> 0, language |-> Undef, base64 |-> "X",
     mimeType |-> "image/jpeg", previewData |-> "X", fileName |-> "scan.jpg",
     documentType |-> "Blood Test", data |-> ResultOf("X", "en", -2),
     chatHistory |-> <<>>]

\* Entries written by the present provider in earlier visits
StoredXvi ==
    [id |-> 1, date |-> 1, language |-> "vi", base64 |-> "X",
     mimeType |-> "image/jpeg", previewData |-> "X", fileName |-> "scan.jpg",
     documentType |-> "Blood Test", data |-> ResultOf("X", "vi", -3),
     chatHistory |-> <<>>]

StoredYen ==
    [id |-> 2, date |-> 2, language |-> "en", base64 |-> "Y",
     mimeType |-> "application/pdf", previewData |-> "",
     fileName |-> "scan.pdf", documentType |-> "Prescription",
     data |-> ResultOf("Y", "en", -4), chatHistory |-> <<>>]

\* the fields of a HistoryItem the provider reads
ItemFields ==
    {"id", "date", "language", "base64", "mimeType", "previewData",
     "fileName", "documentType", "data", "chatHistory"}

\* the optional fields among them (base64?, mimeType?, language?)
OptionalFields == {"language", "base64", "mimeType"}

\* the keys of item that JSON.stringify writes
Written(item) ==
    {g \in DOMAIN item : g \in OptionalFields => item[g] # Undef}

\* localStorage.getItem('medicalHistory') === null
Absent == [kind |-> "absent", items |-> <<>>]

\* a stored string that is not JSON
Corrupt == [kind |-> "corrupt", items |-> <<>>]

\* A serialisation that loses the language of the entries
StringifyNoLanguage(hist) ==
    [kind |-> "json",
     items |-> [i \in DOMAIN hist |->
                  [f \in Written(hist[i]) \ {"language"} |-> hist[i][f]]]]

\* JSON.stringify(history): a key whose value is undefined is left out
Stringify(hist) ==
    [kind |-> "json",
     items |-> [i \in DOMAIN hist |->
                  [f \in Written(hist[i]) |-> hist[i][f]]]]

\* JSON.parse(stored) as the provider reads it: a key that is not there
\* reads as undefined
Parse(stored) ==
    [i \in DOMAIN stored.items |->
        [f \in ItemFields |->
            IF f \in DOMAIN stored.items[i] THEN stored.items[i][f]
            ELSE Undef]]

\* The initializer of the history state: stored ? JSON.parse(stored) : [].
\* ok is false when JSON.parse throws.
ReadHistory(stored) ==
    IF stored.kind = "absent" THEN [ok |-> TRUE, history |-> <<>>]
    ELSE IF stored.kind = "json" THEN [ok |-> TRUE, history |-> Parse(stored)]
    ELSE [ok |-> FALSE, history |-> <<>>]

\* what localStorage 'medicalHistory' may hold when the provider is mounted
InitHistories == { <<LegacyV2>> }

\* the same after several visits, newest entry first
ChatInitHistories == { <<StoredYen, StoredXvi, LegacyV2>> }

\* a history that still holds an entry of the first provider
TalkInitHistories == { <<StoredYen, LegacyV1>> }

VARIABLES
    language,          \* useState<Language>('en')
    fileData,          \* useState<FileData | null>
    analysisData,      \* useState<AnalysisData | null>
    analysisCache,     \* useState<Partial<Record<Language, AnalysisData>>>
    isAnalyzing,       \* useState(false)
    error,             \* useState<string | null>: the language of the message
    chatMessages,      \* useState<ChatMessage[]>
    isChatLoading,     \* useState(false)
    currentHistoryId,  \* useState<string | null>
    history,           \* useState<HistoryItem[]>, newest first
    chatSession,       \* let chatSession: Chat | null (chat service)
    pendingAnalyses,   \* analyzeDocument calls awaiting their response
    pendingChats,      \* sendChatMessage calls awaiting their response
    clock,             \* the last value Date.now() returned
    nCalls,            \* analyzeDocument calls issued so far
    nChats,            \* chat requests issued so far
    callBudget,        \* analyzeDocument calls a behaviour may issue
    chatBudget,        \* chat requests a behaviour may issue
    page,              \* "loading", "mounted", or "failed" (render threw)
    localStorage,      \* the value stored under 'medicalHistory'
    warned,            \* console.warn was called by the save effect
    quota,             \* entries localStorage has room for
    compareItems,      \* useState<HistoryItem[]>([]): the comparison selection
    route,             \* the route the HashRouter renders
    pendingPrepare,    \* the prepareComparison call awaiting its analyses
    evicted,           \* observer: id of the entry the last step evicted
    scenario           \* observer of the upload / switch / switch-back scenario

vars == <<language, fileData, analysisData, analysisCache, isAnalyzing, error,
          chatMessages, isChatLoading, currentHistoryId, history, chatSession,
          pendingAnalyses, pendingChats, clock, nCalls, nChats, callBudget,
          chatBudget, page, localStorage, warned, quota, compareItems, route,
          pendingPrepare, evicted, scenario>>


\* ------------------------------------------------------------- helpers
\* the predicate of history.find in performAnalysis:
\*   h.base64 === data.base64 &&
\*   (h.language === lang || (!h.language && lang === 'en'))
MatchesDocLang(h, b64, lang) ==
    /\ h.base64 = b64
    /\ (h.language = lang \/ (Falsy(h.language) /\ lang = "en"))

\* A lookup by content alone
HistoryMatchAnyLanguage(hist, b64, lang) ==
    LET hits == {i \in DOMAIN hist : hist[i].base64 = b64}
    IN  IF hits = {} THEN 0 ELSE CHOOSE i \in hits : \A j \in hits : i <= j

\* history.find(...): the index of the first matching entry, 0 when none
HistoryMatch(hist, b64, lang) ==
    LET hits == {i \in DOMAIN hist : MatchesDocLang(hist[i], b64, lang)}
    IN  IF hits = {} THEN 0 ELSE CHOOSE i \in hits : \A j \in hits : i <= j

\* the duplicate check of addToHistory: history.some(...)
Exists(hist, b64, lang) ==
    \E i \in DOMAIN hist :
        /\ hist[i].base64 = b64
        /\ (hist[i].language = lang \/ (Falsy(hist[i].language) /\ lang = "en"))

\* item.language || 'en'
ItemLang(item) == IF Falsy(item.language) THEN "en" ELSE item.language

\* history.find(i => i.id === id): the index of the first entry, 0 when none
FindById(hist, id) ==
    LET hits == {i \in DOMAIN hist : hist[i].id = id}
    IN  IF hits = {} THEN 0 ELSE CHOOSE i \in hits : \A j \in hits : i <= j

\* An autosave that also stamps the entry with the time of the save
AutosaveChatStampsDate(hist, id, msgs) ==
    IF id # NoId /\ Len(msgs) > 0
    THEN [i \in DOMAIN hist |->
            IF hist[i].id = id
            THEN IF hist[i].chatHistory = msgs
                 THEN hist[i]
                 ELSE [hist[i] EXCEPT !.chatHistory = msgs,
                                      !.date = hist[i].date + 1]
            ELSE hist[i]]
    ELSE hist

\* The autosave effect: the entries with the bound id take the transcript
AutosaveChat(hist, id, msgs) ==
    IF id # NoId /\ Len(msgs) > 0
    THEN [i \in DOMAIN hist |->
            IF hist[i].id = id
            THEN IF hist[i].chatHistory = msgs
                 THEN hist[i]
                 ELSE [hist[i] EXCEPT !.chatHistory = msgs]
            ELSE hist[i]]
    ELSE hist

\* A session that always answers in English
InitializeChatEnglish(b64, mime, lang) ==
    [doc |-> b64, lang |-> "en",
     turns |-> <<[role |-> "model", kind |-> "ready", n |-> 0]>>]

\* initializeChat: a session on the document with the synthetic model turn
InitializeChat(b64, mime, lang) ==
    [doc |-> b64, lang |-> lang,
     turns |-> <<[role |-> "model", kind |-> "ready", n |-> 0]>>]

\* A restoration that also hardcodes the model's first response
RestoreWithGreeting(b64, mime, lang, chatHistory) ==
    [doc |-> b64, lang |-> lang,
     turns |-> <<[role |-> "model", kind |-> "ready", n |-> 0]>> \o
               [i \in DOMAIN chatHistory |->
                  [role |-> chatHistory[i].role,
                   kind |-> chatHistory[i].kind,
                   n    |-> chatHistory[i].n]]]

\* restoreChatSession: the document turn followed by the stored messages,
\* each reduced to its role and text
RestoreChatSession(b64, mime, lang, chatHistory) ==
    [doc |-> b64, lang |-> lang,
     turns |-> [i \in DOMAIN chatHistory |->
                  [role |-> chatHistory[i].role,
                   kind |-> chatHistory[i].kind,
                   n    |-> chatHistory[i].n]]]

\* relatedItems.forEach of loadHistoryItem: a language already in the cache
\* is kept
RECURSIVE PopulateCache(_, _)
PopulateCache(cache, related) ==
    IF related = <<>> THEN cache
    ELSE LET lang == ItemLang(Head(related))
         IN  PopulateCache(
                 IF cache[lang] = NoData
                 THEN [cache EXCEPT ![lang] = Head(related).data]
                 ELSE cache,
                 Tail(related))

\* A cache built from every other entry, whatever its document
SmartCacheAnyDocument(hist, item, base64) ==
    LET newCache == [EmptyCache EXCEPT ![ItemLang(item)] = item.data]
        IsOther(h) == h.id # item.id
    IN  IF ~Falsy(base64)
        THEN PopulateCache(newCache, SelectSeq(hist, IsOther))
        ELSE newCache

\* The cache loadHistoryItem builds for item, whose content is base64
SmartCache(hist, item, base64) ==
    LET newCache == [EmptyCache EXCEPT ![ItemLang(item)] = item.data]
        IsRelated(h) == h.base64 = base64 /\ h.id # item.id
    IN  IF ~Falsy(base64)
        THEN PopulateCache(newCache, SelectSeq(hist, IsRelated))
        ELSE newCache

\* A cache update that forgets the other languages
CachePutReplace(cache, lang, result) == [EmptyCache EXCEPT ![lang] = result]

\* setAnalysisCache(prev => ({ ...prev, [lang]: result }))
CachePut(cache, lang, result) == [cache EXCEPT ![lang] = result]

\* Bookkeeping on the calls in flight (not read by the code).  A resolution
\* or a reset supersedes every call in flight: it is marked stale.
Supersede(pending) == {[r EXCEPT !.stale = TRUE] : r \in pending}

\* A call issued while others are in flight overlaps them; twin: overlaps a
\* call for the same content and language
Overlap(pending, b64, lang) ==
    {[r EXCEPT !.overlap = TRUE,
               !.twin = r.twin \/ (r.data.base64 = b64 /\ r.lang = lang)]
       : r \in pending}

\* the HistoryItem addToHistory builds
NewItem(data, result, lang, newId) ==
    [id |-> newId, date |-> newId, language |-> lang, base64 |-> data.base64,
     mimeType |-> data.mimeType, previewData |-> data.previewData,
     fileName |-> data.name, documentType |-> result.documentType,
     data |-> result, chatHistory |-> <<>>]

\* --------------------------------------------------- scenario observer
\* Follows one run of: upload d in l1 (a call is made and succeeds), switch
\* to l2 (a call is made and succeeds), switch back to l1.  Any other
\* operation in between ends the run.
NoScenario ==
    [phase |-> 0, d |-> "", l1 |-> "", l2 |-> "", s1 |-> 0, s2 |-> 0, c0 |-> 0]

ScenarioUpload(d, lang, called, serial) ==
    IF called
    THEN [NoScenario EXCEPT !.phase = 1, !.d = d, !.l1 = lang, !.s1 = serial,
                            !.c0 = nCalls]
    ELSE NoScenario

ScenarioSuccess(serial) ==
    IF scenario.phase = 1 /\ serial = scenario.s1
    THEN [scenario EXCEPT !.phase = 2]
    ELSE IF scenario.phase = 3 /\ serial = scenario.s2
    THEN [scenario EXCEPT !.phase = 4]
    ELSE NoScenario

ScenarioSetLanguage(lang, called, serial) ==
    IF scenario.phase = 2 /\ lang # scenario.l1 /\ called
    THEN [scenario EXCEPT !.phase = 3, !.l2 = lang, !.s2 = serial]
    ELSE IF scenario.phase = 4 /\ lang = scenario.l1
    THEN [scenario EXCEPT !.phase = 5]
    ELSE NoScenario

\* ------------------------------------------------------------- effects
\* localStorage.setItem throws when the value does not fit
Fits(hist) == Len(hist) <= quota

\* The autosave effect, useEffect(..., [chatMessages, currentHistoryId]),
\* calls setHistory: a dependency changed, an entry is bound and the
\* transcript is not empty.  (A dependency that is set to an equal value
\* kept in another array also runs the effect; that case is left out.)
AutosaveRuns ==
    /\ chatMessages' # chatMessages \/ currentHistoryId' # currentHistoryId
    /\ currentHistoryId' # NoId
    /\ Len(chatMessages') > 0

\* The history state holds another array than before: its value changed, or
\* the autosave effect set it to the array prev.map(...) returns, which is a
\* new array also when every item is returned as it was
HistorySet == history' # history \/ AutosaveRuns

\* A save effect without its try / catch: the exception leaves the effect
\* and React unmounts the tree
SaveHistoryUncaught ==
    IF ~HistorySet
    THEN UNCHANGED <<localStorage, warned, page>>
    ELSE IF Fits(history')
    THEN /\ localStorage' = Stringify(history')
         /\ UNCHANGED <<warned, page>>
    ELSE /\ page' = "failed"
         /\ UNCHANGED <<localStorage, warned>>

\* useEffect(..., [history]): save the history whenever it changes
SaveHistory ==
    IF ~HistorySet
    THEN UNCHANGED <<localStorage, warned, page>>
    ELSE IF Fits(history')
    THEN /\ localStorage' = Stringify(history')
         /\ UNCHANGED <<warned, page>>
    ELSE /\ warned' = TRUE
         /\ UNCHANGED <<localStorage, page>>

\* A handler or continuation runs on a mounted provider; React commits the
\* updates it queued and runs the effects whose dependencies changed
Commit ==
    /\ page = "mounted"
    /\ SaveHistory
    /\ UNCHANGED <<quota, callBudget, chatBudget>>

\* The same for a handler that ends with navigate(r)
CommitTo(r) ==
    /\ route' = r
    /\ Commit

\* The provider mounts over the stored value: the initializer reads it and
\* the save effect writes the history back
MountOver(stored) ==
    LET read == ReadHistory(stored)
    IN  /\ history' = read.history
        /\ page' = IF read.ok THEN "mounted" ELSE "failed"
        /\ localStorage' = IF read.ok /\ Fits(read.history)
                           THEN Stringify(read.history) ELSE stored
        /\ warned' = (read.ok /\ ~Fits(read.history))
        /\ UNCHANGED <<quota, callBudget, chatBudget>>

\* a quota no history of this development reaches
AmpleQuota == MaxCalls + MaxClock + MaxStored + 3

\* what the browser may hold under 'medicalHistory' when the page is opened
StoredValues == {Absent, Corrupt, Stringify(<<LegacyV2>>)}

\* ---------------------------------------------------------------- Init
\* The provider just mounted: useState initial values, history read from
\* localStorage
Mounted ==
    /\ language = "en"
    /\ fileData = NoFile
    /\ analysisData = NoData
    /\ analysisCache = EmptyCache
    /\ isAnalyzing = FALSE
    /\ error = NoError
    /\ chatMessages = <<>>
    /\ isChatLoading = FALSE
    /\ currentHistoryId = NoId
    /\ chatSession = NoSession
    /\ pendingAnalyses = {}
    /\ pendingChats = {}
    /\ nCalls = 0
    /\ nChats = 0
    /\ compareItems = <<>>
    /\ route = "/"
    /\ pendingPrepare = NoPrepare
    /\ evicted = NoId
    /\ scenario = NoScenario

Init ==
    /\ Mounted
    /\ history \in InitHistories
    /\ clock = 1
    /\ callBudget = MaxCalls
    /\ chatBudget = MaxChats
    /\ page = "mounted"
    /\ localStorage = Stringify(history)
    /\ warned = FALSE
    /\ quota = AmpleQuota

\* The page is being opened and the provider is not mounted yet; storage
\* is short of space
StoreInit ==
    /\ Mounted
    /\ history = <<>>
    /\ clock = 1
    /\ callBudget = MaxCalls
    /\ chatBudget = MaxChats
    /\ page = "loading"
    /\ localStorage \in StoredValues
    /\ warned = FALSE
    /\ quota = MaxStored

\* The provider mounted over the history of several visits; the analysis
\* service is not called in this part of the development
ChatInit ==
    /\ Mounted
    /\ history \in ChatInitHistories
    /\ clock = 3
    /\ callBudget = 0
    /\ chatBudget = MaxChats
    /\ page = "mounted"
    /\ localStorage = Stringify(history)
    /\ warned = FALSE
    /\ quota = AmpleQuota


\* A lookup that does not consult the history
AnalysisPathNoHistory(data, lang) ==
    IF analysisCache[lang] # NoData THEN "cache" ELSE "call"

\* The provider mounted over a history with an entry that lacks its
\* document; one more message may be sent than elsewhere
TalkInit ==
    /\ Mounted
    /\ history \in TalkInitHistories
    /\ clock = 3
    /\ callBudget = 0
    /\ chatBudget = MaxChats + 1
    /\ page = "mounted"
    /\ localStorage = Stringify(history)
    /\ warned = FALSE
    /\ quota = AmpleQuota

\* ------------------------------------------------------ performAnalysis
\* Which of the three branches performAnalysis(data, lang) takes.  The cache
\* and the history it consults are those of the calling handler's closure.
AnalysisPath(data, lang) ==
    IF analysisCache[lang] # NoData THEN "cache"
    ELSE IF HistoryMatch(history, data.base64, lang) # 0 THEN "history"
    ELSE "call"

\* performAnalysis up to its await.  cacheBase is the cache as the updates
\* queued earlier in the same handler leave it (the updater form
\* setAnalysisCache(prev => ...) applies to that value).
PerformAnalysis(data, lang, cacheBase, pend) ==
    LET path == AnalysisPath(data, lang)
        m    == HistoryMatch(history, data.base64, lang)
    IN  CASE path = "cache" ->
               /\ analysisData' = analysisCache[lang]
               /\ analysisCache' = cacheBase
               /\ chatSession' = InitializeChat(data.base64, data.mimeType, lang)
               /\ pendingAnalyses' = pend
               /\ UNCHANGED <<isAnalyzing, error, chatMessages, currentHistoryId,
                              history, nCalls>>
          [] path = "history" ->
               /\ analysisData' = history[m].data
               /\ analysisCache' = CachePut(cacheBase, lang, history[m].data)
               /\ currentHistoryId' = history[m].id
               /\ chatMessages' = history[m].chatHistory
               /\ chatSession' =
                    IF Len(history[m].chatHistory) > 0
                    THEN RestoreChatSession(data.base64, data.mimeType, lang,
                                            history[m].chatHistory)
                    ELSE InitializeChat(data.base64, data.mimeType, lang)
               /\ history' = AutosaveChat(history, history[m].id,
                                          history[m].chatHistory)
               /\ pendingAnalyses' = pend
               /\ UNCHANGED <<isAnalyzing, error, nCalls>>
          [] path = "call" ->
               /\ nCalls < callBudget
               /\ chatMessages' = <<>>
               /\ currentHistoryId' = NoId
               /\ analysisData' = NoData
               /\ isAnalyzing' = TRUE
               /\ error' = NoError
               /\ analysisCache' = cacheBase
               /\ nCalls' = nCalls + 1
               /\ pendingAnalyses' = Overlap(pend, data.base64, lang) \cup
                      {[serial |-> nCalls + 1, data |-> data, lang |-> lang,
                        hist |-> history, stale |-> FALSE,
                        overlap |-> pend # {},
                        twin |-> \E q \in pend : /\ q.data.base64 = data.base64
                                                 /\ q.lang = lang]}
               /\ UNCHANGED <<history, chatSession>>

\* handleFileUpload(data)
HandleFileUpload(d) ==
    /\ fileData' = FileOf(d)
    /\ PerformAnalysis(FileOf(d), language, EmptyCache,
                       Supersede(pendingAnalyses))
    /\ pendingChats' = Supersede(pendingChats)
    /\ scenario' = ScenarioUpload(d, language,
                                  AnalysisPath(FileOf(d), language) = "call",
                                  nCalls + 1)
    /\ UNCHANGED <<language, isChatLoading, clock, nChats>>
    /\ UNCHANGED <<compareItems, route, pendingPrepare, evicted>>
    /\ Commit

\* updateLanguage(newLang), exposed as setLanguage
UpdateLanguage(newLang) ==
    /\ language' = newLang
    /\ IF fileData # NoFile /\ ~isAnalyzing
       THEN /\ PerformAnalysis(fileData, newLang, analysisCache,
                               Supersede(pendingAnalyses))
            /\ pendingChats' = Supersede(pendingChats)
            /\ scenario' = ScenarioSetLanguage(newLang,
                               AnalysisPath(fileData, newLang) = "call",
                               nCalls + 1)
       ELSE /\ scenario' = ScenarioSetLanguage(newLang, FALSE, 0)
            /\ UNCHANGED <<analysisData, analysisCache, isAnalyzing, error,
                           chatMessages, currentHistoryId, history, chatSession,
                           pendingAnalyses, pendingChats, nCalls>>
    /\ UNCHANGED <<fileData, isChatLoading, clock, nChats>>
    /\ UNCHANGED <<compareItems, route, pendingPrepare, evicted>>
    /\ Commit

\* An addToHistory that puts the new entry behind the older ones
AddToHistoryAtEnd(r, result, newId) ==
    IF Exists(r.hist, r.data.base64, r.lang)
    THEN [id |-> currentHistoryId, hist |-> history]
    ELSE [id |-> newId,
          hist |-> Append(history, NewItem(r.data, result, r.lang, newId))]

\* addToHistory(fileData, data, targetLanguage) as the continuation of the
\* request r calls it: hist is the history of r's closure, newId the value
\* of Date.now().  Returns the new bound id and the new history.
AddToHistory(r, result, newId) ==
    IF Exists(r.hist, r.data.base64, r.lang)
    THEN [id |-> currentHistoryId, hist |-> history]
    ELSE [id |-> newId,
          hist |-> <<NewItem(r.data, result, r.lang, newId)>> \o history]

\* performAnalysis after its await, analyzeDocument resolved
AnalysisSucceeds(r) ==
    \E newId \in {clock, clock + 1} \cap (0..MaxClock) :
        LET result == ResultOf(r.data.base64, r.lang, r.serial)
            added  == AddToHistory(r, result, newId)
        IN  /\ analysisData' = result
            /\ analysisCache' = CachePut(analysisCache, r.lang, result)
            /\ currentHistoryId' = added.id
            /\ history' = IF added.id # currentHistoryId
                          THEN AutosaveChat(added.hist, added.id, chatMessages)
                          ELSE added.hist
            /\ clock' = newId
            /\ chatSession' = InitializeChat(r.data.base64, r.data.mimeType, r.lang)
            /\ isAnalyzing' = FALSE
            /\ pendingAnalyses' = pendingAnalyses \ {r}
            /\ scenario' = ScenarioSuccess(r.serial)
            /\ UNCHANGED <<language, fileData, error, chatMessages, isChatLoading,
                           pendingChats, nCalls, nChats>>
            /\ UNCHANGED <<compareItems, route, pendingPrepare, evicted>>
            /\ Commit

\* A rejection handler without the finally block
AnalysisFailsBusy(r) ==
    /\ error' = r.lang
    /\ pendingAnalyses' = pendingAnalyses \ {r}
    /\ scenario' = NoScenario
    /\ UNCHANGED <<language, fileData, analysisData, analysisCache, isAnalyzing,
                   chatMessages, isChatLoading, currentHistoryId, history,
                   chatSession, pendingChats, clock, nCalls, nChats>>
    /\ UNCHANGED <<compareItems, route, pendingPrepare, evicted>>
    /\ Commit

\* performAnalysis after its await, analyzeDocument rejected
AnalysisFails(r) ==
    /\ error' = r.lang
    /\ isAnalyzing' = FALSE
    /\ pendingAnalyses' = pendingAnalyses \ {r}
    /\ scenario' = NoScenario
    /\ UNCHANGED <<language, fileData, analysisData, analysisCache, chatMessages,
                   isChatLoading, currentHistoryId, history, chatSession,
                   pendingChats, clock, nCalls, nChats>>
    /\ UNCHANGED <<compareItems, route, pendingPrepare, evicted>>
    /\ Commit

\* the state updates loadHistoryItem(id) queues: none when no entry has
\* the id
LoadHistoryItemUpdates(id) ==
    LET k == FindById(history, id) IN
    IF k = 0
    THEN UNCHANGED <<currentHistoryId, language, analysisData, fileData,
                     analysisCache, error, chatMessages, chatSession, history,
                     pendingAnalyses, pendingChats, scenario, isAnalyzing,
                     isChatLoading, clock, nCalls, nChats, compareItems,
                     pendingPrepare>>
    ELSE
    /\ LET item     == history[k]
           itemLang == ItemLang(item)
           base64   == IF ~Falsy(item.base64) THEN item.base64
                       ELSE item.previewData
           mimeType == IF ~Falsy(item.mimeType) THEN item.mimeType
                       ELSE IF item.previewData # "" THEN "image/jpeg"
                       ELSE "application/pdf"
           hasDoc   == ~Falsy(item.base64) /\ ~Falsy(item.mimeType)
       IN  /\ currentHistoryId' = item.id
           /\ language' = itemLang
           /\ analysisData' = item.data
           /\ fileData' = [base64 |-> base64, mimeType |-> mimeType,
                           previewData |-> item.previewData,
                           name |-> item.fileName]
           /\ analysisCache' = SmartCache(history, item, base64)
           /\ error' = NoError
           /\ chatMessages' = item.chatHistory
           /\ chatSession' =
                IF ~hasDoc THEN chatSession
                ELSE IF Len(item.chatHistory) > 0
                THEN RestoreChatSession(item.base64, item.mimeType, itemLang,
                                        item.chatHistory)
                ELSE InitializeChat(item.base64, item.mimeType, itemLang)
           /\ history' = AutosaveChat(history, item.id, item.chatHistory)
    /\ pendingAnalyses' = Supersede(pendingAnalyses)
    /\ pendingChats' = Supersede(pendingChats)
    /\ scenario' = NoScenario
    /\ UNCHANGED <<isAnalyzing, isChatLoading, clock, nCalls, nChats>>
    /\ UNCHANGED <<compareItems, pendingPrepare>>

\* loadHistoryItem(id)
LoadHistoryItem(id) ==
    LoadHistoryItemUpdates(id) /\ UNCHANGED <<route, evicted>> /\ Commit

\* a reset that also drops the comparison selection
ResetAppClearsSelection ==
    /\ fileData' = NoFile
    /\ analysisData' = NoData
    /\ analysisCache' = EmptyCache
    /\ error' = NoError
    /\ chatMessages' = <<>>
    /\ isChatLoading' = FALSE
    /\ currentHistoryId' = NoId
    /\ pendingAnalyses' = Supersede(pendingAnalyses)
    /\ pendingChats' = Supersede(pendingChats)
    /\ scenario' = NoScenario
    /\ UNCHANGED <<language, isAnalyzing, history, chatSession, clock, nCalls,
                   nChats>>
    /\ compareItems' = <<>>
    /\ UNCHANGED pendingPrepare

\* the state updates resetApp() queues
ResetAppUpdates ==
    /\ fileData' = NoFile
    /\ analysisData' = NoData
    /\ analysisCache' = EmptyCache
    /\ error' = NoError
    /\ chatMessages' = <<>>
    /\ isChatLoading' = FALSE
    /\ currentHistoryId' = NoId
    /\ pendingAnalyses' = Supersede(pendingAnalyses)
    /\ pendingChats' = Supersede(pendingChats)
    /\ scenario' = NoScenario
    /\ UNCHANGED <<language, isAnalyzing, history, chatSession, clock, nCalls,
                   nChats>>
    /\ UNCHANGED <<compareItems, pendingPrepare>>

\* resetApp()
ResetApp == ResetAppUpdates /\ UNCHANGED <<route, evicted>> /\ Commit

\* A delete that leaves the binding and the selection as they are
DeleteFromHistoryOnly(id) ==
    LET Keep(h) == h.id # id IN
    /\ FindById(history, id) # 0
    /\ history' = SelectSeq(history, Keep)
    /\ scenario' = NoScenario
    /\ UNCHANGED <<language, fileData, analysisData, analysisCache, isAnalyzing,
                   error, chatMessages, isChatLoading, chatSession,
                   pendingAnalyses, pendingChats, clock, nCalls, nChats>>
    /\ UNCHANGED <<currentHistoryId, compareItems>>
    /\ evicted' = NoId
    /\ UNCHANGED <<route, pendingPrepare>>
    /\ Commit

\* deleteHistoryItem(id)
DeleteHistoryItem(id) ==
    LET Keep(h) == h.id # id IN
    /\ FindById(history, id) # 0
    /\ history' = SelectSeq(history, Keep)
    /\ currentHistoryId' = IF currentHistoryId = id THEN NoId ELSE currentHistoryId
    /\ scenario' = NoScenario
    /\ UNCHANGED <<language, fileData, analysisData, analysisCache, isAnalyzing,
                   error, chatMessages, isChatLoading, chatSession,
                   pendingAnalyses, pendingChats, clock, nCalls, nChats>>
    /\ compareItems' = SelectSeq(compareItems, Keep)
    /\ evicted' = NoId
    /\ UNCHANGED <<route, pendingPrepare>>
    /\ Commit


\* ---------------------------------------------------------------- chat
\* sendUserMessage(textInput), textInput not blank.  sendChatMessage throws
\* at once when no session exists: the catch block then runs before any
\* other handler can.  Otherwise the request is sent on the session bound at
\* this moment and the continuation waits for the response.
SendUserMessage ==
    \/ /\ page = "mounted"
       /\ isChatLoading
       /\ UNCHANGED vars
    \/ /\ ~isChatLoading
       /\ nChats < chatBudget
       /\ nChats' = nChats + 1
       /\ IF chatSession = NoSession
          THEN /\ chatMessages' = chatMessages \o
                                  <<UserTurn(nChats + 1), ErrorTurn(nChats + 1)>>
               /\ UNCHANGED <<isChatLoading, pendingChats>>
          ELSE /\ chatMessages' = Append(chatMessages, UserTurn(nChats + 1))
               /\ isChatLoading' = TRUE
               /\ pendingChats' =
                      {[c EXCEPT !.overlap = TRUE] : c \in pendingChats} \cup
                      {[n |-> nChats + 1, lang |-> language,
                        doc |-> fileData.base64, hid |-> currentHistoryId,
                        stale |-> FALSE, overlap |-> pendingChats # {}]}
       /\ history' = AutosaveChat(history, currentHistoryId, chatMessages')
       /\ scenario' = NoScenario
       /\ UNCHANGED <<language, fileData, analysisData, analysisCache,
                      isAnalyzing, error, currentHistoryId, chatSession,
                      pendingAnalyses, clock, nCalls>>
       /\ UNCHANGED <<compareItems, route, pendingPrepare, evicted>>
       /\ Commit

\* A continuation without the finally block
ChatSettlesBusy(c, turn) ==
    /\ chatMessages' = Append(chatMessages, turn)
    /\ pendingChats' = pendingChats \ {c}
    /\ history' = AutosaveChat(history, currentHistoryId, chatMessages')
    /\ scenario' = NoScenario
    /\ UNCHANGED <<language, fileData, analysisData, analysisCache, isAnalyzing,
                   error, isChatLoading, currentHistoryId, chatSession,
                   pendingAnalyses, clock, nCalls, nChats>>
    /\ UNCHANGED <<compareItems, route, pendingPrepare, evicted>>
    /\ Commit

\* the continuation of sendUserMessage appends one model turn
ChatSettles(c, turn) ==
    /\ chatMessages' = Append(chatMessages, turn)
    /\ isChatLoading' = FALSE
    /\ pendingChats' = pendingChats \ {c}
    /\ history' = AutosaveChat(history, currentHistoryId, chatMessages')
    /\ scenario' = NoScenario
    /\ UNCHANGED <<language, fileData, analysisData, analysisCache, isAnalyzing,
                   error, currentHistoryId, chatSession, pendingAnalyses, clock,
                   nCalls, nChats>>
    /\ UNCHANGED <<compareItems, route, pendingPrepare, evicted>>
    /\ Commit

\* sendUserMessage after its await, sendChatMessage resolved
ChatReplies(c) == ChatSettles(c, ReplyTurn(c.n))

\* sendUserMessage after its await, sendChatMessage rejected
ChatFails(c) == ChatSettles(c, ErrorTurn(c.n))

\* A greeting that is appended to whatever the transcript holds
AddSystemMessageAppends ==
    /\ chatMessages' = Append(chatMessages, InitTurn)
    /\ history' = AutosaveChat(history, currentHistoryId, chatMessages')
    /\ scenario' = NoScenario
    /\ UNCHANGED <<language, fileData, analysisData, analysisCache, isAnalyzing,
                   error, isChatLoading, currentHistoryId, chatSession,
                   pendingAnalyses, pendingChats, clock, nCalls, nChats>>
    /\ UNCHANGED <<compareItems, route, pendingPrepare, evicted>>
    /\ Commit

\* addSystemMessage(text): the greeting, only into an empty transcript
AddSystemMessage ==
    \/ /\ page = "mounted"
       /\ Len(chatMessages) > 0
       /\ UNCHANGED vars
    \/ /\ Len(chatMessages) = 0
       /\ chatMessages' = <<InitTurn>>
       /\ history' = AutosaveChat(history, currentHistoryId, chatMessages')
       /\ scenario' = NoScenario
       /\ UNCHANGED <<language, fileData, analysisData, analysisCache,
                      isAnalyzing, error, isChatLoading, currentHistoryId,
                      chatSession, pendingAnalyses, pendingChats, clock, nCalls,
                      nChats>>
       /\ UNCHANGED <<compareItems, route, pendingPrepare, evicted>>
       /\ Commit

\* The page is reloaded: the provider mounts again, reads the history from
\* localStorage, and the calls in flight are lost with the old page.  Time
\* has passed: the clock no longer shows the time of a stored entry.
Reload ==
    /\ page # "loading"
    /\ clock' = IF \E i \in DOMAIN history : history[i].id = clock
                THEN clock + 1 ELSE clock
    /\ clock' <= MaxClock
    /\ language' = "en"
    /\ fileData' = NoFile
    /\ analysisData' = NoData
    /\ analysisCache' = EmptyCache
    /\ isAnalyzing' = FALSE
    /\ error' = NoError
    /\ chatMessages' = <<>>
    /\ isChatLoading' = FALSE
    /\ currentHistoryId' = NoId
    /\ chatSession' = NoSession
    /\ pendingAnalyses' = {}
    /\ pendingChats' = {}
    /\ scenario' = NoScenario
    /\ compareItems' = <<>>
    /\ pendingPrepare' = NoPrepare
    /\ evicted' = NoId
    /\ MountOver(localStorage)
    /\ UNCHANGED <<nCalls, nChats, route>>

\* The page is opened: the provider mounts for the first time
Mount ==
    /\ page = "loading"
    /\ MountOver(localStorage)
    /\ UNCHANGED <<language, fileData, analysisData, analysisCache, isAnalyzing,
                   error, chatMessages, isChatLoading, currentHistoryId,
                   chatSession, pendingAnalyses, pendingChats, clock, nCalls,
                   nChats, compareItems, route, pendingPrepare, evicted,
                   scenario>>

\* -------------------------------------------------------- history view
\* Entries of earlier visits as the history page lists them.  Their ids and
\* dates are times before this visit.  Two entries of the first provider
\* (no stored content) are scans of different documents that the camera
\* gave the same file name.
OldScanW ==
    [id |-> -6, date |-> -6, language |-> Undef, base64 |-> Undef,
     mimeType |-> Undef, previewData |-> "", fileName |-> "scan.jpg",
     documentType |-> "Blood Test", data |-> ResultOf("W", "en", -6),
     chatHistory |-> <<>>]

OldScanZ ==
    [id |-> -5, date |-> -5, language |-> Undef, base64 |-> Undef,
     mimeType |-> Undef, previewData |-> "", fileName |-> "scan.jpg",
     documentType |-> "Blood Test", data |-> ResultOf("Z", "en", -5),
     chatHistory |-> <<>>]

PastXvi ==
    [id |-> -4, date |-> -4, language |-> "vi", base64 |-> "X",
     mimeType |-> "image/jpeg", previewData |-> "X", fileName |-> "scan.jpg",
     documentType |-> "Blood Test", data |-> ResultOf("X", "vi", -4),
     chatHistory |-> <<>>]

PastYen ==
    [id |-> -3, date |-> -3, language |-> "en", base64 |-> "Y",
     mimeType |-> "application/pdf", previewData |-> "",
     fileName |-> "scan.pdf", documentType |-> "Prescription",
     data |-> ResultOf("Y", "en", -3), chatHistory |-> <<>>]

PastXen ==
    [id |-> -2, date |-> -2, language |-> "en", base64 |-> "X",
     mimeType |-> "image/jpeg", previewData |-> "X", fileName |-> "scan.jpg",
     documentType |-> "Blood Test", data |-> ResultOf("X", "en", -2),
     chatHistory |-> <<>>]

\* the history the history page opens on, newest entry first
SelectHistories == { <<PastXen, PastYen, PastXvi, OldScanZ, OldScanW>> }

\* the routes of the application that read the provider
Routes == {"/", "/history", "/compare"}

\* the key of a group: item.base64 || item.fileName
GroupKey(item) ==
    IF ~Falsy(item.base64) THEN item.base64 ELSE item.fileName

\* the keys of groups, in the order history.forEach creates them
RECURSIVE KeysInOrder(_)
KeysInOrder(hist) ==
    IF hist = <<>> THEN <<>>
    ELSE LET k == GroupKey(Head(hist))
             Other(x) == x # k
         IN  <<k>> \o SelectSeq(KeysInOrder(Tail(hist)), Other)

\* A sort that puts the smallest score first
SortAscending(score) ==
    LET n == Len(score)
        Before(i, j) == score[i] < score[j] \/ (score[i] = score[j] /\ i < j)
        Rank(i) == Cardinality({j \in 1..n : Before(j, i)}) + 1
    IN  [r \in 1..n |-> CHOOSE i \in 1..n : Rank(i) = r]

\* array.sort((a, b) => score(b) - score(a)): the positions of the elements
\* in sorted order, largest score first; the sort is stable
SortDescending(score) ==
    LET n == Len(score)
        Before(i, j) == score[i] > score[j] \/ (score[i] = score[j] /\ i < j)
        Rank(i) == Cardinality({j \in 1..n : Before(j, i)}) + 1
    IN  [r \in 1..n |-> CHOOSE i \in 1..n : Rank(i) = r]

\* [...group].sort((a, b) => b.date - a.date)
SortedGroupItems(group) ==
    LET order == SortDescending([i \in DOMAIN group |-> group[i].date])
    IN  [r \in DOMAIN group |-> group[order[r]]]

\* Math.max(...group.map(i => i.date))
MaxDate(group) ==
    CHOOSE d \in {group[i].date : i \in DOMAIN group} :
        \A e \in {group[i].date : i \in DOMAIN group} : e <= d

\* groupedHistory: the groups, the one with the latest entry first; the
\* entries of a group are in the order of the history
GroupedHistory(hist) ==
    LET keys   == KeysInOrder(hist)
        groups == [k \in DOMAIN keys |->
                     LET InGroup(h) == GroupKey(h) = keys[k]
                     IN  SelectSeq(hist, InGroup)]
        order  == SortDescending([k \in DOMAIN keys |-> MaxDate(groups[k])])
    IN  [r \in DOMAIN keys |-> groups[order[r]]]

\* A selection that never evicts
ToggleUnbounded(selection, latestItem) ==
    LET Others(i) == i.id # latestItem.id
    IN  IF \E k \in DOMAIN selection : selection[k].id = latestItem.id
        THEN SelectSeq(selection, Others)
        ELSE Append(selection, latestItem)

\* An eviction of the entry added last
RestNewestOut(selection) == SubSeq(selection, 1, Len(selection) - 1)

\* const [first, ...rest] = compareItems
Rest(selection) == Tail(selection)

\* the selection toggleSelection sets for the latest item of the group
Toggle(selection, latestItem) ==
    LET Others(i) == i.id # latestItem.id
    IN  IF \E k \in DOMAIN selection : selection[k].id = latestItem.id
        THEN SelectSeq(selection, Others)
        ELSE IF Len(selection) >= 2
        THEN Append(Rest(selection), latestItem)
        ELSE Append(selection, latestItem)

\* the latest item of the g-th card of the history page
LatestItem(g) == SortedGroupItems(GroupedHistory(history)[g])[1]

\* toggleSelection(group), a click on the g-th card
ToggleSelection(g) ==
    /\ route = "/history"
    /\ g \in DOMAIN GroupedHistory(history)
    /\ compareItems' = Toggle(compareItems, LatestItem(g))
    /\ evicted' = IF /\ Len(compareItems) >= 2
                     /\ \A k \in DOMAIN compareItems :
                            compareItems[k].id # LatestItem(g).id
                  THEN compareItems[1].id ELSE NoId
    /\ UNCHANGED <<language, fileData, analysisData, analysisCache, isAnalyzing,
                   error, chatMessages, isChatLoading, currentHistoryId, history,
                   chatSession, pendingAnalyses, pendingChats, clock, nCalls,
                   nChats, route, pendingPrepare, scenario>>
    /\ Commit

\* handleDeleteGroup(group), confirmed: deleteHistoryItem for every item of
\* the g-th card
HandleDeleteGroup(g) ==
    /\ route = "/history"
    /\ g \in DOMAIN GroupedHistory(history)
    /\ LET group == GroupedHistory(history)[g]
           ids   == {group[i].id : i \in DOMAIN group}
           Keep(h) == h.id \notin ids
       IN  /\ history' = SelectSeq(history, Keep)
           /\ compareItems' = SelectSeq(compareItems, Keep)
           /\ currentHistoryId' = IF currentHistoryId \in ids THEN NoId
                                  ELSE currentHistoryId
    /\ scenario' = NoScenario
    /\ UNCHANGED <<language, fileData, analysisData, analysisCache, isAnalyzing,
                   error, chatMessages, isChatLoading, chatSession,
                   pendingAnalyses, pendingChats, clock, nCalls, nChats, route,
                   pendingPrepare>>
    /\ evicted' = NoId
    /\ Commit

\* The router renders another route (a link, the back and forward buttons,
\* the address bar).  HistoryView calls resetApp() when it mounts.
GoTo(r) ==
    /\ r # route
    /\ route' = r
    /\ IF r = "/history"
       THEN ResetAppUpdates
       ELSE UNCHANGED <<language, fileData, analysisData, analysisCache,
                        isAnalyzing, error, chatMessages, isChatLoading,
                        currentHistoryId, history, chatSession, pendingAnalyses,
                        pendingChats, clock, nCalls, nChats, compareItems,
                        pendingPrepare, scenario>>
    /\ evicted' = NoId
    /\ Commit

\* isSelectionValid
IsSelectionValid == Len(compareItems) = 2

\* isTypeMismatch
IsTypeMismatch ==
    /\ IsSelectionValid
    /\ compareItems[1].documentType # compareItems[2].documentType

\* ComparisonView renders the two cards and the table
ShowsComparison == route = "/compare" /\ Len(compareItems) = 2

\* prepareForComparison (section 4.6): item's document is available in lang
\* when item is in lang or the history holds an entry of its content in lang
Available(hist, item, lang) ==
    \/ ItemLang(item) = lang
    \/ /\ ~Falsy(item.base64)
       /\ HistoryMatch(hist, item.base64, lang) # 0

\* the entry that stands for item in lang, item being available in lang
Prepared(hist, item, lang) ==
    IF ItemLang(item) = lang THEN item
    ELSE hist[HistoryMatch(hist, item.base64, lang)]

\* the FileData of a stored entry
FileOfItem(item) ==
    [base64 |-> item.base64, mimeType |-> item.mimeType,
     previewData |-> item.previewData, name |-> item.fileName]

\* handleCompare(): a click on the compare button, which is disabled unless
\* two entries of one type are selected and no analysis is running.
\* prepareComparison(compareItems, language) resolves what is available at
\* once; an entry without stored content cannot be analysed again.
HandleCompare ==
    /\ route = "/history"
    /\ IsSelectionValid /\ ~IsTypeMismatch /\ ~isAnalyzing
    /\ UNCHANGED <<language, fileData, analysisData, analysisCache,
                   chatMessages, isChatLoading, currentHistoryId, history,
                   chatSession, pendingAnalyses, pendingChats, clock, nChats,
                   scenario>>
    /\ evicted' = NoId
    /\ LET need == {k \in 1..2 :
                       ~Available(history, compareItems[k], language)}
           ready == [k \in 1..2 |->
                       IF k \in need THEN compareItems[k]
                       ELSE Prepared(history, compareItems[k], language)]
       IN  CASE need = {} ->
                  /\ compareItems' = ready
                  /\ UNCHANGED <<isAnalyzing, error, nCalls, pendingPrepare>>
                  /\ CommitTo("/compare")
             [] \E k \in need : Falsy(compareItems[k].base64) ->
                  /\ error' = language
                  /\ UNCHANGED <<compareItems, isAnalyzing, nCalls,
                                 pendingPrepare, route>>
                  /\ Commit
             [] OTHER ->
                  /\ nCalls + Cardinality(need) <= callBudget
                  /\ isAnalyzing' = TRUE
                  /\ error' = NoError
                  /\ nCalls' = nCalls + Cardinality(need)
                  /\ pendingPrepare' = [selection |-> ready, lang |-> language,
                                        need |-> need, serial |-> nCalls]
                  /\ UNCHANGED <<compareItems, route>>
                  /\ Commit

\* prepareComparison after its awaits, every analyzeDocument call resolved:
\* the results enter the history, the selection holds the entries in the
\* target language, and handleCompare navigates
PrepareSucceeds ==
    /\ pendingPrepare # NoPrepare
    /\ \E t \in {clock, clock + 1} :
          LET p      == pendingPrepare
              n      == Cardinality(p.need)
              Nth(k) == Cardinality({j \in p.need : j < k})
              Made(k) ==
                  NewItem(FileOfItem(p.selection[k]),
                          ResultOf(p.selection[k].base64, p.lang,
                                   p.serial + Nth(k) + 1),
                          p.lang, t + Nth(k))
              made   == [k \in 1..2 |->
                           IF k \in p.need THEN Made(k) ELSE p.selection[k]]
              added  == IF p.need = {1, 2} THEN <<made[2], made[1]>>
                        ELSE IF p.need = {1} THEN <<made[1]>>
                        ELSE <<made[2]>>
          IN  /\ t + n - 1 <= MaxClock
              /\ clock' = t + n - 1
              /\ history' = added \o history
              /\ compareItems' = made
    /\ isAnalyzing' = FALSE
    /\ pendingPrepare' = NoPrepare
    /\ UNCHANGED <<language, fileData, analysisData, analysisCache, error,
                   chatMessages, isChatLoading, currentHistoryId, chatSession,
                   pendingAnalyses, pendingChats, nCalls, nChats, scenario>>
    /\ evicted' = NoId
    /\ CommitTo("/compare")

\* prepareComparison after its awaits, an analyzeDocument call rejected
PrepareFails ==
    /\ pendingPrepare # NoPrepare
    /\ error' = pendingPrepare.lang
    /\ isAnalyzing' = FALSE
    /\ pendingPrepare' = NoPrepare
    /\ UNCHANGED <<language, fileData, analysisData, analysisCache,
                   chatMessages, isChatLoading, currentHistoryId, history,
                   chatSession, pendingAnalyses, pendingChats, clock, nCalls,
                   nChats, compareItems, route, scenario>>
    /\ evicted' = NoId
    /\ Commit

\* The provider mounted over the history of earlier visits; the user goes
\* to the history page and selects entries for comparison
SelectInit ==
    /\ Mounted
    /\ history \in SelectHistories
    /\ clock = 1
    /\ callBudget = MaxCalls
    /\ chatBudget = 0
    /\ page = "mounted"
    /\ localStorage = Stringify(history)
    /\ warned = FALSE
    /\ quota = AmpleQuota

\* a history of two documents, newest entry first
FrameHistories == { <<StoredYen, StoredXvi>> }

\* the service answers one analysis, or one message of a conversation
FrameBudgets == { <<1, 0>>, <<0, 1>> }

\* The provider mounted over two stored entries; localStorage has room for
\* them and for no third entry
FrameInit ==
    /\ Mounted
    /\ history \in FrameHistories
    /\ clock = 3
    /\ \E b \in FrameBudgets : callBudget = b[1] /\ chatBudget = b[2]
    /\ page = "mounted"
    /\ localStorage = Stringify(history)
    /\ warned = FALSE
    /\ quota = MaxStored + 1

\* a history of one document
WorkHistories == { <<StoredXvi>> }

\* The provider mounted over one stored entry; the service answers one
\* analysis and one message of a conversation
WorkInit ==
    /\ Mounted
    /\ history \in WorkHistories
    /\ clock = 2
    /\ callBudget = 1
    /\ chatBudget = 1
    /\ page = "mounted"
    /\ localStorage = Stringify(history)
    /\ warned = FALSE
    /\ quota = AmpleQuota

\* The provider mounted over one stored entry; the service answers one
\* analysis and the user also works on the history page
PageInit ==
    /\ Mounted
    /\ history \in WorkHistories
    /\ clock = 2
    /\ callBudget = 1
    /\ chatBudget = 0
    /\ page = "mounted"
    /\ localStorage = Stringify(history)
    /\ warned = FALSE
    /\ quota = AmpleQuota

\* ------------------------------------------------------- specification
\* The resolution of (document, language) requests and the history
Next ==
    \/ \E d \in Docs : HandleFileUpload(d)
    \/ \E l \in Languages : UpdateLanguage(l)
    \/ \E r \in pendingAnalyses : AnalysisSucceeds(r)
    \/ \E r \in pendingAnalyses : AnalysisFails(r)
    \/ \E id \in 0..MaxClock : LoadHistoryItem(id)
    \/ ResetApp
    \/ \E id \in 0..MaxClock : DeleteHistoryItem(id)
    \/ Reload

Spec == Init /\ [][Next]_vars

\* The same over a browser storage that is short of space and may hold
\* anything when the page is opened
StoreNext ==
    \/ Mount
    \/ \E d \in Docs : HandleFileUpload(d)
    \/ \E l \in Languages : UpdateLanguage(l)
    \/ \E r \in pendingAnalyses : AnalysisSucceeds(r)
    \/ \E r \in pendingAnalyses : AnalysisFails(r)
    \/ \E id \in 0..MaxClock : LoadHistoryItem(id)
    \/ ResetApp
    \/ \E id \in 0..MaxClock : DeleteHistoryItem(id)
    \/ Reload

StoreSpec == StoreInit /\ [][StoreNext]_vars

\* The conversation over documents that are already in the history
ChatNext ==
    \/ \E d \in Docs : HandleFileUpload(d)
    \/ \E l \in Languages : UpdateLanguage(l)
    \/ \E id \in 0..MaxClock : LoadHistoryItem(id)
    \/ ResetApp
    \/ SendUserMessage
    \/ \E c \in pendingChats : ChatReplies(c)
    \/ \E c \in pendingChats : ChatFails(c)
    \/ AddSystemMessage
    \/ Reload

ChatSpec == ChatInit /\ [][ChatNext]_vars

\* Several messages, over a history with an entry that lacks its document
TalkNext ==
    \/ \E d \in Docs : HandleFileUpload(d)
    \/ \E l \in Languages : UpdateLanguage(l)
    \/ \E id \in 0..MaxClock : LoadHistoryItem(id)
    \/ ResetApp
    \/ SendUserMessage
    \/ \E c \in pendingChats : ChatReplies(c)
    \/ \E c \in pendingChats : ChatFails(c)

TalkSpec == TalkInit /\ [][TalkNext]_vars

\* The history page: selection, comparison and deletion
SelectNext ==
    \/ \E r \in Routes : GoTo(r)
    \/ \E g \in 1..Len(history) : ToggleSelection(g)
    \/ \E g \in 1..Len(history) : HandleDeleteGroup(g)
    \/ \E i \in DOMAIN history : DeleteHistoryItem(history[i].id)
    \/ \E l \in Languages : UpdateLanguage(l)
    \/ HandleCompare
    \/ PrepareSucceeds
    \/ PrepareFails

SelectSpec == SelectInit /\ [][SelectNext]_vars

\* The selection next to the work on documents: analyses and chats that
\* fail, a storage that is full
FrameNext ==
    \/ \E r \in Routes : GoTo(r)
    \/ \E g \in 1..Len(history) : ToggleSelection(g)
    \/ \E i \in DOMAIN history : DeleteHistoryItem(history[i].id)
    \/ \E d \in Docs : HandleFileUpload(d)
    \/ \E l \in Languages : UpdateLanguage(l)
    \/ \E r \in pendingAnalyses : AnalysisSucceeds(r)
    \/ \E r \in pendingAnalyses : AnalysisFails(r)
    \/ \E i \in DOMAIN history : LoadHistoryItem(history[i].id)
    \/ ResetApp
    \/ SendUserMessage
    \/ \E c \in pendingChats : ChatReplies(c)
    \/ \E c \in pendingChats : ChatFails(c)

FrameSpec == FrameInit /\ [][FrameNext]_vars

\* Analyses and conversations side by side: the responses of the calls
\* arrive in any order between the user's operations
WorkNext ==
    \/ \E d \in Docs : HandleFileUpload(d)
    \/ \E l \in Languages : UpdateLanguage(l)
    \/ \E r \in pendingAnalyses : AnalysisSucceeds(r)
    \/ \E r \in pendingAnalyses : AnalysisFails(r)
    \/ \E id \in 0..MaxClock : LoadHistoryItem(id)
    \/ ResetApp
    \/ \E id \in 0..MaxClock : DeleteHistoryItem(id)
    \/ SendUserMessage
    \/ \E c \in pendingChats : ChatReplies(c)
    \/ \E c \in pendingChats : ChatFails(c)
    \/ AddSystemMessage

WorkSpec == WorkInit /\ [][WorkNext]_vars

\* The history page next to an analysis whose response may arrive while the
\* page is shown
PageNext ==
    \/ \E r \in Routes : GoTo(r)
    \/ \E d \in Docs : HandleFileUpload(d)
    \/ \E l \in Languages : UpdateLanguage(l)
    \/ \E r \in pendingAnalyses : AnalysisSucceeds(r)
    \/ \E r \in pendingAnalyses : AnalysisFails(r)
    \/ \E id \in 0..MaxClock : LoadHistoryItem(id)
    \/ \E g \in 1..Len(history) : ToggleSelection(g)
    \/ \E g \in 1..Len(history) : HandleDeleteGroup(g)
    \/ \E id \in 0..MaxClock : DeleteHistoryItem(id)

PageSpec == PageInit /\ [][PageNext]_vars

\* the response of an analyzeDocument call arrives
AnalysisReturns ==
    \E r \in pendingAnalyses : AnalysisSucceeds(r) \/ AnalysisFails(r)

\* the response of a sendChatMessage call arrives
ChatReturns ==
    \E c \in pendingChats : ChatReplies(c) \/ ChatFails(c)

\* The same where every call of the external service returns in the end
LiveSpec ==
    /\ WorkInit
    /\ [][WorkNext]_vars
    /\ WF_vars(AnalysisReturns)
    /\ WF_vars(ChatReturns)

\* ------------------------------------------------------------- properties
\* A step that issues an analyzeDocument call found nothing for the
\* request's language in the cache it consulted and no entry for the
\* request's content and language in the history
CallIssuedOnMiss ==
    nCalls' = nCalls + 1 =>
        \A q \in pendingAnalyses' :
            q.serial = nCalls' =>
                /\ analysisCache[q.lang] = NoData
                /\ ~Exists(history, q.data.base64, q.lang)

C2_SwitchBack ==
    /\ scenario.phase >= 4 =>
           /\ scenario.s1 = scenario.c0 + 1
           /\ scenario.s2 = scenario.c0 + 2
           /\ nCalls = scenario.c0 + 2
           /\ analysisCache[scenario.l1] =
                  ResultOf(scenario.d, scenario.l1, scenario.s1)
           /\ analysisCache[scenario.l2] =
                  ResultOf(scenario.d, scenario.l2, scenario.s2)
    /\ scenario.phase = 5 =>
           /\ language = scenario.l1
           /\ analysisData = ResultOf(scenario.d, scenario.l1, scenario.s1)
           /\ \E i \in DOMAIN history :
                  /\ history[i].base64 = scenario.d
                  /\ ItemLang(history[i]) = scenario.l1
                  /\ history[i].data = analysisData

\* the language has been switched back to L1
C2_Witness == scenario.phase = 5

\* C3: the history never holds two entries with the same content and the
\* same language
C3_OneEntryPerPair ==
    \A i, j \in DOMAIN history :
        i # j => ~ /\ history[i].base64 = history[j].base64
                   /\ ItemLang(history[i]) = ItemLang(history[j])

\* C4: when an analyzeDocument call resolves after another document, a
\* stored entry or no document at all has become active, its result is
\* dropped: analysisData, the cache, the bound history id, the chat session
\* and the transcript stay as they are
C4_StaleResultDropped ==
    [][\A r \in pendingAnalyses :
           (AnalysisSucceeds(r) /\ r.stale /\ fileData.base64 # r.data.base64)
           => /\ analysisData' = analysisData
              /\ analysisCache' = analysisCache
              /\ currentHistoryId' = currentHistoryId
              /\ chatSession' = chatSession
              /\ chatMessages' = chatMessages
      ]_vars

\* C5: a chat reply or chat error that arrives after another document has
\* become active and is shown with its own result is discarded: the active transcript and the transcript of
\* every entry other than the one the message was sent from stay as they are
C5_StaleReplyDiscarded ==
    [][\A c \in pendingChats :
           (/\ ChatReplies(c) \/ ChatFails(c)
            /\ fileData # NoFile
            /\ fileData.base64 # c.doc
            /\ analysisData.doc = fileData.base64)
           => /\ chatMessages' = chatMessages
              /\ \A i \in DOMAIN history :
                     history[i].id # c.hid =>
                         history'[i].chatHistory = history[i].chatHistory
      ]_vars

\* C6: whenever the result of the active document in the selected language
\* is shown and a history entry is bound, the bound entry is the entry of
\* the active document and the selected language
C6_BoundEntryMatches ==
    (/\ fileData # NoFile
     /\ analysisData # NoData
     /\ analysisData.doc = fileData.base64
     /\ analysisData.lang = language
     /\ currentHistoryId # NoId)
    => \A i \in DOMAIN history :
           history[i].id = currentHistoryId =>
               /\ history[i].base64 = fileData.base64
               /\ ItemLang(history[i]) = language

\* C7: a result that is shown was produced for the active document and for
\* the selected language
C7_ResultMatchesSelection ==
    analysisData # NoData =>
        /\ analysisData.doc = fileData.base64
        /\ analysisData.lang = language

\* C8: every result in the cache was produced for the active document
C8_CacheOfActiveDocument ==
    \A l \in Languages :
        analysisCache[l] # NoData => analysisCache[l].doc = fileData.base64

ChatFailureFrame ==
    UNCHANGED <<language, fileData, analysisData, analysisCache, isAnalyzing,
                error, currentHistoryId, chatSession>>

C11_WriteFailureNotFatal ==
    [][\A r \in pendingAnalyses :
           (AnalysisSucceeds(r) /\ ~Fits(history'))
           => /\ Len(history') = Len(history) + 1
              /\ history'[1].base64 = r.data.base64
              /\ history'[1].language = r.lang
              /\ history'[1].data = ResultOf(r.data.base64, r.lang, r.serial)
              /\ \A i \in DOMAIN history : history'[i + 1] = history[i]
              /\ warned'
              /\ localStorage' = localStorage
              /\ page' = "mounted"
              /\ analysisData' = history'[1].data
              /\ ~isAnalyzing'
      ]_vars

\* a result is shown whose entry could not be written
C11_Witness ==
    /\ page = "mounted"
    /\ warned
    /\ ~isAnalyzing
    /\ analysisData.serial >= 1
    /\ Len(history) > quota
    /\ history[1].data = analysisData
    /\ ReadHistory(localStorage).history # history

\* C12: when the provider mounts over a stored value that is absent or is
\* not parseable, it mounts with the empty history
C12_StartupNeverFails ==
    [][((Mount \/ Reload) /\ localStorage.kind \in {"absent", "corrupt"})
       => /\ page' = "mounted"
          /\ history' = <<>>
      ]_vars

\* C13: while no write has failed, the stored value decodes to exactly the
\* history in memory: every entry with its result and its transcript
C13_RoundTrip ==
    (page = "mounted" /\ ~warned)
    => ReadHistory(localStorage) = [ok |-> TRUE, history |-> history]

\* the page was reloaded after a conversation and the stored entry still
\* carries the transcript
C13_Witness ==
    /\ page = "mounted"
    /\ chatSession = NoSession
    /\ \E i \in DOMAIN history :
           /\ Len(history[i].chatHistory) > 0
           /\ history[i].chatHistory[1].kind = "user"

\* the chat session was created for (b64, lang) with exactly the turns of
\* the transcript as prior turns: same order, roles and texts, no greeting
RestoredFrom(session, b64, lang, transcript) ==
    /\ session.doc = b64
    /\ session.lang = lang
    /\ Len(session.turns) = Len(transcript)
    /\ \A i \in DOMAIN transcript :
           /\ session.turns[i].role = transcript[i].role
           /\ session.turns[i].kind = transcript[i].kind
           /\ session.turns[i].n = transcript[i].n

HistoryHitOutcome(data, lang) ==
    \E i \in DOMAIN history :
        /\ MatchesDocLang(history[i], data.base64, lang)
        /\ nCalls' = nCalls
        /\ pendingAnalyses' = Supersede(pendingAnalyses)
        /\ analysisData' = history[i].data
        /\ analysisCache'[lang] = history[i].data
        /\ currentHistoryId' = history[i].id
        /\ chatMessages' = history[i].chatHistory
        /\ chatSession'.doc = data.base64
        /\ chatSession'.lang = lang
        /\ IF Len(history[i].chatHistory) > 0
           THEN RestoredFrom(chatSession', data.base64, lang,
                             history[i].chatHistory)
           ELSE /\ Len(chatSession'.turns) = 1
                /\ chatSession'.turns[1].kind = "ready"

\* C15: performAnalysis(D, L) with nothing cached for L and an entry for
\* (D, L) in the history calls no analysis, shows and caches the entry's
\* result, binds the entry, and takes over its transcript: restoring the
\* session from it when it is non-empty, starting a fresh session otherwise
C15_HistoryHit ==
    [][/\ \A d \in Docs :
              (/\ HandleFileUpload(d)
               /\ analysisCache[language] = NoData
               /\ Exists(history, d, language))
              => HistoryHitOutcome(FileOf(d), language)
       /\ \A l \in Languages :
              (/\ UpdateLanguage(l)
               /\ fileData # NoFile
               /\ ~isAnalyzing
               /\ analysisCache[l] = NoData
               /\ Exists(history, fileData.base64, l))
              => HistoryHitOutcome(fileData, l)
      ]_vars

\* X was uploaded under a language it has an entry for, with a stored
\* conversation: only that language is cached, the entry is bound and the
\* session is restored from the conversation
C15_Witness ==
    /\ fileData = FileOf("X")
    /\ analysisData # NoData
    /\ analysisCache[language] = analysisData
    /\ \A l \in Languages \ {language} : analysisCache[l] = NoData
    /\ Len(chatMessages) > 0
    /\ RestoredFrom(chatSession, "X", language, chatMessages)
    /\ \E i \in DOMAIN history :
           /\ history[i].id = currentHistoryId
           /\ history[i].data = analysisData
           /\ MatchesDocLang(history[i], "X", language)

\* what the cache-hit branch leaves behind for the request (data, lang)
CacheHitOutcome(data, lang) ==
    /\ nCalls' = nCalls
    /\ pendingAnalyses' = Supersede(pendingAnalyses)
    /\ analysisData' = analysisCache[lang]
    /\ chatSession' # NoSession
    /\ chatSession'.doc = data.base64
    /\ chatSession'.lang = lang

\* C16: performAnalysis(D, L) with a result cached for L calls no analysis,
\* shows the cached result, and binds a chat session created for (D, L)
C16_CacheHit ==
    [][/\ \A d \in Docs :
              (HandleFileUpload(d) /\ analysisCache[language] # NoData)
              => CacheHitOutcome(FileOf(d), language)
       /\ \A l \in Languages :
              (/\ UpdateLanguage(l)
               /\ fileData # NoFile
               /\ ~isAnalyzing
               /\ analysisCache[l] # NoData)
              => CacheHitOutcome(fileData, l)
      ]_vars

\* the language of X was switched to a cached one: the entry of the other
\* language is still bound, the session is a fresh one for the new language
C16_Witness ==
    /\ fileData = FileOf("X")
    /\ language = "vi"
    /\ analysisData = analysisCache["vi"]
    /\ analysisData.lang = "vi"
    /\ chatSession = InitializeChat("X", fileData.mimeType, "vi")
    /\ \E i \in DOMAIN history :
           /\ history[i].id = currentHistoryId
           /\ ItemLang(history[i]) = "en"

\* a step in which sendUserMessage passes its guard
MessageAccepted == ~isChatLoading /\ nChats' = nChats + 1

\* C17: whenever a message is sent while a document is active, the session
\* that answers it was created for the active document and the selected
\* language
C17_SessionOfActiveDocument ==
    [][(MessageAccepted /\ fileData # NoFile /\ chatSession # NoSession)
       => /\ chatSession.doc = fileData.base64
          /\ chatSession.lang = language
      ]_vars

\* C18: a message sent while no session is bound or no document is active
\* fails at once with the not-initialized error: no request goes to the
\* chat service, the transcript gets the user turn and the error turn
C18_NotInitialized ==
    [][(MessageAccepted /\ (chatSession = NoSession \/ fileData = NoFile))
       => /\ pendingChats' = pendingChats
          /\ chatMessages' = chatMessages \o
                 <<UserTurn(nChats'), ErrorTurn(nChats')>>
      ]_vars

\* C19: at most one chat request is outstanding, and in the transcript
\* every user turn that is not the last turn is directly followed by its
\* own reply or error turn
C19_OneRequestInOrder ==
    /\ Cardinality(pendingChats) <= 1
    /\ \A i \in 1..(Len(chatMessages) - 1) :
           chatMessages[i].kind = "user" =>
               /\ chatMessages[i + 1].kind \in {"reply", "error"}
               /\ chatMessages[i + 1].n = chatMessages[i].n

\* C20: isAnalyzing is true while an analyzeDocument call is outstanding
\* and isChatLoading is true while a chat call is outstanding
C20_BusySignals ==
    /\ pendingAnalyses # {} => isAnalyzing
    /\ pendingChats # {} => isChatLoading

\* C21: the comparison selection holds at most two entries and no entry
\* twice, whatever toggleSelection and deleteHistoryItem did
C21_SelectionBounded ==
    /\ Len(compareItems) \in {0, 1, 2}
    /\ \A i, j \in DOMAIN compareItems :
           i # j => /\ compareItems[i].id # compareItems[j].id
                    /\ compareItems[i] # compareItems[j]

\* two entries are selected after a third was toggled in and an entry was
\* deleted
C21_Witness ==
    /\ Len(compareItems) = 2
    /\ evicted # NoId
    /\ Len(history) < 5
    /\ pendingPrepare = NoPrepare
    /\ nCalls = 0

\* the card g shows an entry that is in the selection
Selected(g) ==
    \E k \in DOMAIN compareItems : compareItems[k].id = LatestItem(g).id

\* C22: toggling a selected entry removes that entry and keeps the other;
\* toggling an unselected entry appends it when fewer than two are
\* selected, and when the selection is [a, b] it yields [b, e]
C22_ToggleFifo ==
    [][\A g \in 1..Len(history) :
          ToggleSelection(g) =>
              LET e == LatestItem(g)
                  a == compareItems[1]
                  b == compareItems[2]
              IN  /\ (Selected(g) /\ Len(compareItems) = 1) =>
                         compareItems' = <<>>
                  /\ (Selected(g) /\ Len(compareItems) = 2 /\ a.id = e.id) =>
                         compareItems' = <<b>>
                  /\ (Selected(g) /\ Len(compareItems) = 2 /\ b.id = e.id) =>
                         compareItems' = <<a>>
                  /\ (~Selected(g) /\ Len(compareItems) = 0) =>
                         compareItems' = <<e>>
                  /\ (~Selected(g) /\ Len(compareItems) = 1) =>
                         compareItems' = <<a, e>>
                  /\ (~Selected(g) /\ Len(compareItems) = 2) =>
                         compareItems' = <<b, e>>
      ]_vars

\* two entries are selected and the last toggle evicted the entry that was
\* added first, which is still in the history
C22_Witness ==
    /\ Len(compareItems) = 2
    /\ evicted # NoId
    /\ evicted \notin {compareItems[1].id, compareItems[2].id}
    /\ \E i \in DOMAIN history : history[i].id = evicted
    /\ Len(history) = 5
    /\ nCalls = 0

\* C23: a comparison is shown only of two selected entries that have the
\* same documentType
C23_ComparisonOfOneType ==
    ShowsComparison =>
        compareItems[1].documentType = compareItems[2].documentType

\* C24: whenever the comparison view displays two analyses, both were
\* produced in the same output language
C24_ComparisonInOneLanguage ==
    ShowsComparison =>
        /\ ItemLang(compareItems[1]) = ItemLang(compareItems[2])
        /\ compareItems[1].data.lang = compareItems[2].data.lang

\* the document an entry's analysis was made from
ContentOf(item) == item.data.doc

\* C25: deleteHistoryItem(id) removes the one entry with that id and leaves
\* every other entry as it was; deleting a card removes every entry of the
\* card's document and no entry of any other document
C25_DeleteExactly ==
    [][/\ \A i \in DOMAIN history :
              DeleteHistoryItem(history[i].id) =>
                  LET Others(h) == h.id # history[i].id
                  IN  /\ history' = SelectSeq(history, Others)
                      /\ Len(history') = Len(history) - 1
       /\ \A g \in 1..Len(history) :
              HandleDeleteGroup(g) =>
                  LET d == ContentOf(LatestItem(g))
                      OtherDocument(h) == ContentOf(h) # d
                  IN  history' = SelectSeq(history, OtherDocument)
      ]_vars

\* C26: when addToHistory is called for a content and language the history
\* already holds, it fails with an error the caller can observe and the
\* history stays as it is
C26_DuplicateEntryFails ==
    [][\A r \in pendingAnalyses :
          (AnalysisSucceeds(r) /\ Exists(history, r.data.base64, r.lang))
              => /\ history' = history
                 /\ error' # NoError
      ]_vars

\* C27: an update of the bound entry's transcript that changes no entry
\* (the active transcript equals the stored one) causes no write of the
\* history to localStorage
C27_NoRedundantWrite ==
    [][(AutosaveRuns /\ history' = history) => ~HistorySet]_vars

C29_IdentityIsContent ==
    \A i, j \in DOMAIN history :
        (GroupKey(history[i]) = GroupKey(history[j]))
            <=> (ContentOf(history[i]) = ContentOf(history[j]))
\* the step is a toggle of a card of the history page
ToggleStep == \E g \in 1..Len(history) : ToggleSelection(g)

\* the step deletes an entry that is in the selection
DeleteSelectedStep ==
    \E i \in DOMAIN history :
        /\ \E k \in DOMAIN compareItems : compareItems[k].id = history[i].id
        /\ DeleteHistoryItem(history[i].id)

\* the step writes the history to a localStorage that has no room for it
WriteFails == HistorySet /\ ~Fits(history')

\* C30: an analysis that fails, a chat message that fails and a write to
\* localStorage that fails leave compareItems unchanged, and so do
\* handleFileUpload, setLanguage, loadHistoryItem, resetApp and
\* sendUserMessage: a step that changes compareItems is a toggleSelection
\* or a deleteHistoryItem of a selected entry
C30_SelectionFrame ==
    [][/\ (compareItems' # compareItems) => (ToggleStep \/ DeleteSelectedStep)
       /\ (\E r \in pendingAnalyses : AnalysisFails(r)) =>
              compareItems' = compareItems
       /\ (\E c \in pendingChats : ChatFails(c)) =>
              compareItems' = compareItems
       /\ (WriteFails /\ ~DeleteSelectedStep) => compareItems' = compareItems
       /\ (\E d \in Docs : HandleFileUpload(d)) => compareItems' = compareItems
       /\ (\E l \in Languages : UpdateLanguage(l)) =>
              compareItems' = compareItems
       /\ (\E i \in DOMAIN history : LoadHistoryItem(history[i].id)) =>
              compareItems' = compareItems
       /\ ResetApp => compareItems' = compareItems
       /\ SendUserMessage => compareItems' = compareItems
      ]_vars

\* two entries are selected and the analysis that was called has failed
C30_Witness ==
    /\ Len(compareItems) = 2
    /\ error # NoError
    /\ nCalls = 1
    /\ pendingAnalyses = {}

\* the entries of hist for the content b64 and the language lang
EntriesFor(hist, b64, lang) ==
    {i \in DOMAIN hist : MatchesDocLang(hist[i], b64, lang)}

LoadableIds == {history[i].id : i \in DOMAIN history} \cup (0..MaxClock)

\* C32: loadHistoryItem(id) of an entry e sets the language to e's
\* language, analysisData to e's result, currentHistoryId to e's id,
\* chatMessages to e's transcript and error to null; the cache then holds
\* e's result under e's language, under each other language the result of
\* an entry with e's content when there is one and nothing otherwise, and no
\* result of another document; for an id no entry has, nothing changes
C32_LoadReplacesSession ==
    [][\A id \in LoadableIds :
           LoadHistoryItem(id) =>
               LET k == FindById(history, id)
                   e == history[k]
                   Same(l) == {i \in DOMAIN history :
                                 /\ history[i].id # e.id
                                 /\ ~Falsy(e.base64)
                                 /\ history[i].base64 = e.base64
                                 /\ ItemLang(history[i]) = l}
               IN  IF k = 0 THEN UNCHANGED vars
                   ELSE /\ language' = ItemLang(e)
                        /\ analysisData' = e.data
                        /\ currentHistoryId' = e.id
                        /\ chatMessages' = e.chatHistory
                        /\ error' = NoError
                        /\ analysisCache'[ItemLang(e)] = e.data
                        /\ \A l \in Languages \ {ItemLang(e)} :
                               IF Same(l) = {}
                               THEN analysisCache'[l] = NoData
                               ELSE \E i \in Same(l) :
                                        analysisCache'[l] = history[i].data
                        /\ \A l \in Languages :
                               analysisCache'[l] # NoData =>
                                   analysisCache'[l].doc = ContentOf(e)
      ]_vars

\* the entry of X in Vietnamese was loaded with its conversation while an
\* entry of another document heads the history: the cache holds the two
\* results of X
C32_Witness ==
    /\ currentHistoryId = StoredXvi.id
    /\ language = "vi"
    /\ analysisData = StoredXvi.data
    /\ analysisCache["vi"] = StoredXvi.data
    /\ analysisCache["en"] = LegacyV2.data
    /\ Len(chatMessages) > 0
    /\ history[1].base64 = "Y"
    /\ error = NoError

\* the transcript a begins the transcript b
IsPrefix(a, b) == Len(a) <= Len(b) /\ SubSeq(b, 1, Len(a)) = a

\* the entry h2 is the entry h with its transcript extended
SameEntryExtended(h, h2) ==
    /\ h2.id = h.id
    /\ h2.date = h.date
    /\ h2.base64 = h.base64
    /\ h2.mimeType = h.mimeType
    /\ h2.language = h.language
    /\ h2.fileName = h.fileName
    /\ h2.documentType = h.documentType
    /\ h2.data = h.data
    /\ IsPrefix(h.chatHistory, h2.chatHistory)

\* C33: in every step, an entry of the history that is still in the history
\* afterwards has the id, date, content, language, file name and result it
\* had, and its transcript is the transcript it had or an extension of it
C33_EntryImmutable ==
    [][\A i \in DOMAIN history : \A j \in DOMAIN history' :
           history'[j].id = history[i].id =>
               SameEntryExtended(history[i], history'[j])
      ]_vars

\* the stored entry was loaded and a message was sent and answered: the
\* entry holds the conversation
C33_Witness ==
    /\ \E i \in DOMAIN history :
           /\ history[i].id = StoredXvi.id
           /\ history[i].data = StoredXvi.data
           /\ Len(history[i].chatHistory) >= 2
           /\ history[i].chatHistory = chatMessages
    /\ currentHistoryId = StoredXvi.id
    /\ pendingChats = {}

\* no active document, nothing shown, cached, bound or said
Idle ==
    /\ fileData = NoFile
    /\ analysisData = NoData
    /\ analysisCache = EmptyCache
    /\ error = NoError
    /\ chatMessages = <<>>
    /\ ~isChatLoading
    /\ currentHistoryId = NoId

\* the response of an analyzeDocument or chat call arrives
ResponseArrives ==
    \/ \E r \in pendingAnalyses : AnalysisSucceeds(r) \/ AnalysisFails(r)
    \/ \E c \in pendingChats : ChatReplies(c) \/ ChatFails(c)

\* C34: resetApp leads to Idle and leaves the history, the comparison
\* selection and the language as they are; and the response of an earlier
\* call that arrives in an Idle state leaves the state Idle
C34_ResetToIdle ==
    [][/\ ResetApp =>
              /\ Idle'
              /\ UNCHANGED <<history, compareItems, language>>
       /\ (Idle /\ ResponseArrives) => Idle'
      ]_vars


\* the analyzeDocument call number n is in flight
AnalysisInFlight(n) == \E r \in pendingAnalyses : r.serial = n

\* the chat call of message number n is in flight
ChatInFlight(n) == \E c \in pendingChats : c.n = n

\* the model turns of the transcript that answer message number n
ModelTurnsFor(n) ==
    {k \in DOMAIN chatMessages :
        chatMessages[k].role = "model" /\ chatMessages[k].n = n}

\* C35: when every call returns in the end, each analyzeDocument call ends
\* with isAnalyzing false and a result or an error on display, and each
\* message sent to the service ends with isChatLoading false and exactly
\* one model turn for it in the transcript
C35_CallsEnd ==
    /\ \A n \in 1..MaxCalls :
           AnalysisInFlight(n) ~>
               (/\ ~AnalysisInFlight(n)
                /\ ~isAnalyzing
                /\ (analysisData # NoData \/ error # NoError))
    /\ \A n \in 1..MaxChats :
           ChatInFlight(n) ~>
               (/\ ~ChatInFlight(n)
                /\ ~isChatLoading
                /\ Cardinality(ModelTurnsFor(n)) = 1)

\* the analysis and the message of the behaviour have both been answered
C35_Witness ==
    /\ nCalls = 1
    /\ pendingAnalyses = {}
    /\ ~isAnalyzing
    /\ analysisData # NoData \/ error # NoError
    /\ nChats = 1
    /\ pendingChats = {}
    /\ ~isChatLoading
    /\ Cardinality(ModelTurnsFor(1)) = 1

\* C36: currentHistoryId is null or the id of an entry of the history, in
\* every reachable state; so a delete of the bound entry, alone or with its
\* group, unbinds it
C36_BoundEntryPresent ==
    \/ currentHistoryId = NoId
    \/ \E i \in DOMAIN history : history[i].id = currentHistoryId

\* the card of the bound entry was deleted: the history is empty and no
\* entry is bound, while the result of the deleted entry is still shown
C36_Witness ==
    /\ route = "/history"
    /\ history = <<>>
    /\ currentHistoryId = NoId
    /\ analysisData # NoData
    /\ nCalls = 1
    /\ pendingAnalyses = {}

\* C37: every entry of the comparison selection has the id of an entry of
\* the history, in every reachable state; so deleteHistoryItem(id) takes
\* the entry out of the selection as well
C37_SelectionInHistory ==
    \A k \in DOMAIN compareItems :
        \E i \in DOMAIN history : history[i].id = compareItems[k].id

\* the card of the stored entry and the card of an analysed document were
\* selected and the entry of the latter was deleted: the stored entry is
\* still selected
C37_Witness ==
    /\ route = "/history"
    /\ Len(compareItems) = 1
    /\ compareItems[1].id = StoredXvi.id
    /\ Len(history) = 1
    /\ nCalls = 1
    /\ pendingAnalyses = {}
    /\ analysisData # NoData
    /\ analysisData.doc = "Y"

\* C38: no two entries of the history have the same id, in every reachable
\* state
C38_IdsDistinct ==
    \A i \in DOMAIN history : \A j \in DOMAIN history :
        history[i].id = history[j].id => i = j

\* C39: in no reachable state is an error set while a result is shown
C39_FailedExcludesReady ==
    ~(error # NoError /\ analysisData # NoData)

\* C40: the greeting turn occurs in the active transcript as its first
\* turn only, hence at most once, in every reachable state
C40_GreetingFirstOnly ==
    \A k \in DOMAIN chatMessages :
        chatMessages[k].kind = "init" => k = 1

\* the stored entry is bound with a conversation that began with the
\* greeting and whose message has been answered
C40_Witness ==
    /\ Len(chatMessages) = 3
    /\ chatMessages[1] = InitTurn
    /\ chatMessages[2].role = "user"
    /\ chatMessages[3].role = "model"
    /\ currentHistoryId = StoredXvi.id
    /\ \E i \in DOMAIN history :
           /\ history[i].id = StoredXvi.id
           /\ history[i].chatHistory = chatMessages
    /\ pendingChats = {}

====
